---- MODULE Spec2Model ----
(***************************************************************************)
(* Model of the local-recall dashboard (frontend-nextjs): the api client   *)
(* with its mock back end, the SearchTab query consumer, the streamed      *)
(* answer channel and the notification poller.                             *)
(*                                                                         *)
(* Strings are sequences of tokens (a word, or the blank " "): s.length is *)
(* Len, s1 + s2 is \o, "" is << >>.                                        *)
(***************************************************************************)
EXTENDS Integers, Sequences, FiniteSets, TLC

VARIABLES
    useMock,          \* USE_MOCK_API (fixed at build time)
    mockEntries,      \* mock-api: the entry store
    mockStats,        \* mock-api: the stats counters
    deleted,          \* history: ids for which deleteEntry has completed
    created,          \* number of createEntry calls so far (bounded)
    lastResult,       \* what the most recent api call returned to its caller
    streams,          \* the streams returned by queryStream so far
    query,            \* SearchTab state ...
    useRag,
    streamEnabled,
    k,
    loading,
    ragResponse,
    searchResults,
    streamingAnswer,
    reqs,             \* promise-based requests started by handleSearch
    toasts,           \* the toast store
    lastNotificationId, \* Home: the poller's cursor
    bus,              \* back-end notification log
    polls,            \* getNotifications calls in flight / handled
    markReads,        \* markNotificationRead calls in flight
    shown,            \* history: notification ids shown as a toast
    tags,             \* UploadTab state ...
    tagInput,
    files,            \* UploadTab: the selected files (each selection has its own id)
    uploading,
    uploadRuns,       \* handleUpload calls: the files and tags they captured, position
    entriesOf,        \* history: successful createEntry calls per selected file
    estatus,          \* entry store: embedding_status of each existing entry
    vectors,          \* vector index: number of live Vector Records per entry id
    intake,           \* embedding pipeline: the intake queue of entry ids
    tasks,            \* embedding pipeline: the Pipeline Tasks made so far
    events,           \* history: the pipeline's publish calls on the event bus
    healthy,          \* whether the model service answers embedding calls
    requeued,         \* number of re-queues so far (bounded)
    status,           \* Sidebar state: the status shown, with the request it answers
    refreshing,
    toggling,
    statusReqs,       \* api.getStatus calls so far, in the order they were issued
    refreshTimer,     \* the setTimeout of handleRefresh is pending
    control,          \* the start/stop capture request of handleToggleCapture in flight
    dataEntries,      \* DataTab state: the ids of the entries listed
    dataLoading,
    deleteId,
    fetches,          \* fetchData calls so far
    deletes           \* handleDelete calls so far, with the entries they captured

storeVars == <<mockEntries, mockStats, deleted, created>>
tabVars == <<query, useRag, streamEnabled, k, loading, ragResponse, searchResults,
             streamingAnswer, reqs>>
pollVars == <<lastNotificationId, bus, polls, markReads, shown>>
uploadVars == <<tags, tagInput, files, uploading, uploadRuns, entriesOf>>
pipeVars == <<estatus, vectors, intake, tasks, events, healthy, requeued>>
sideVars == <<status, refreshing, toggling, statusReqs, refreshTimer, control>>
dataVars == <<dataEntries, dataLoading, deleteId, fetches, deletes>>
vars == <<useMock, mockEntries, mockStats, deleted, created, lastResult, streams,
          query, useRag, streamEnabled, k, loading, ragResponse, searchResults,
          streamingAnswer, reqs, toasts, lastNotificationId, bus, polls,
          markReads, shown, tags, tagInput, files, uploading, uploadRuns,
          entriesOf, estatus, vectors, intake, tasks,
          events, healthy, requeued, status, refreshing, toggling, statusReqs,
          refreshTimer, control, dataEntries, dataLoading, deleteId, fetches,
          deletes>>

-----------------------------------------------------------------------------
(* Bounds of the model *)

MaxCreates == 2
MaxStore == 3
InitialEntries == 3
MaxK == 2
MaxApiStreams == 1
MaxSearches == 2
MaxToasts == 1
MaxChunks == 2
MaxPolls == 2
MaxNotifs == 2
MaxPipeEntries == 2
BatchSize == 2
MaxAttempts == 2
QueueCapacity == 2
MaxRequeues == 1
MaxFiles == 2
MaxUploads == 2
MaxStatusReqs == 3
MaxFetches == 2
MaxDeletes == 2

\* the ids the entry store assigns
EntryIds == 1..MaxPipeEntries

-----------------------------------------------------------------------------
(* JavaScript values and helpers *)

Undefined == "undefined"

\* Math.max() of no arguments is -Infinity, and -Infinity + 1 is -Infinity.
NegInfinity == -1000000

Min(a, b) == IF a < b THEN a ELSE b

RECURSIVE MaxOf(_)
MaxOf(s) ==
    IF s = << >> THEN NegInfinity
    ELSE LET m == MaxOf(Tail(s)) IN IF Head(s) > m THEN Head(s) ELSE m

Plus1(x) == IF x = NegInfinity THEN NegInfinity ELSE x + 1

\* String.prototype.toLowerCase, token by token
LowerTok(t) ==
    CASE t = "React" -> "react"
      [] t = "Next" -> "next"
      [] t = "CSS" -> "css"
      [] OTHER -> t

ToLowerCase(s) == [i \in 1..Len(s) |-> LowerTok(s[i])]

\* String.prototype.includes: q occurs in s as a contiguous run
Includes(s, q) ==
    \E i \in 0..(Len(s) - Len(q)) : \A j \in 1..Len(q) : s[i + j] = q[j]

\* Array.prototype.slice(0, n)
Slice(s, n) == SubSeq(s, 1, Min(Len(s), n))

\* mockEntries.findIndex((e) => e.id === id) (1-based here, 0 when absent; JS gives -1)
RECURSIVE FindIndexFrom(_, _, _)
FindIndexFrom(s, id, i) ==
    IF i > Len(s) THEN 0
    ELSE IF s[i].id = id THEN i ELSE FindIndexFrom(s, id, i + 1)

FindIndex(s, id) == FindIndexFrom(s, id, 1)

\* Array.prototype.splice(index, 1)
Splice1(s, i) == SubSeq(s, 1, i - 1) \o SubSeq(s, i + 1, Len(s))

\* String.prototype.split(" "): the runs between blanks, empty runs included
RECURSIVE SplitFrom(_, _)
SplitFrom(s, cur) ==
    IF s = << >> THEN <<cur>>
    ELSE IF Head(s) = " " THEN <<cur>> \o SplitFrom(Tail(s), << >>)
         ELSE SplitFrom(Tail(s), Append(cur, Head(s)))

Split(s) == SplitFrom(s, << >>)

\* String.prototype.trim
RECURSIVE TrimLeft(_)
TrimLeft(s) ==
    IF s # << >> /\ Head(s) = " " THEN TrimLeft(Tail(s)) ELSE s

RECURSIVE TrimRight(_)
TrimRight(s) ==
    IF s # << >> /\ s[Len(s)] = " " THEN TrimRight(SubSeq(s, 1, Len(s) - 1)) ELSE s

\* Trim that leaves the string as it is
Trim_Nothing(s) == s

Trim(s) == TrimRight(TrimLeft(s))

\* Array.prototype.sort((a, b) => b.relevance_score - a.relevance_score):
\* stable, so equal scores keep their order
RECURSIVE InsertDesc(_, _)
InsertDesc(sorted, x) ==
    IF sorted = << >> THEN <<x>>
    ELSE IF Head(sorted).relevance_score >= x.relevance_score
         THEN <<Head(sorted)>> \o InsertDesc(Tail(sorted), x)
         ELSE <<x>> \o sorted

RECURSIVE SortDescFrom(_, _)
SortDescFrom(s, acc) ==
    IF s = << >> THEN acc ELSE SortDescFrom(Tail(s), InsertDesc(acc, Head(s)))

SortDesc(s) == SortDescFrom(s, << >>)

\* null as JSON.parse gives it for a number: a value apart from every number in use
JsonNull == -2000000

\* JSON.stringify then JSON.parse of a number: a non-finite number becomes null
JsonNumber(x) == IF x = NegInfinity THEN JsonNull ELSE x

\* data.content || fallback: the fallback when the property is absent or ""
ContentOr(data, fallback) ==
    IF "content" \in DOMAIN data /\ data.content # << >> THEN data.content ELSE fallback

-----------------------------------------------------------------------------
(* mock-api: the store *)

\* The five entries the mock store is built with (texts shortened to keywords)
AllMockEntries ==
    << [id |-> 1, text |-> <<"React", " ", "library">>, source |-> "clipboard",
        tags |-> << >>],
       [id |-> 2, text |-> <<"Next", " ", "React">>, source |-> "clipboard",
        tags |-> << <<"doc", "umentation">> >>],
       [id |-> 3, text |-> <<"TypeScript">>, source |-> "screenshot",
        tags |-> << >>],
       [id |-> 4, text |-> <<"Tailwind", " ", "CSS">>, source |-> "clipboard",
        tags |-> << <<"css">>, <<"doc", "umentation">> >>],
       [id |-> 5, text |-> <<"Recall">>, source |-> "upload",
        tags |-> << <<"project">> >>] >>

\* The store the model starts from: the mock's store after its last entries, all
\* but the first InitialEntries, have been deleted (deleteEntry takes one off each
\* counter, which start at 5)
InitialMockEntries == SubSeq(AllMockEntries, 1, Min(InitialEntries, 5))

InitialDeleted == {AllMockEntries[i].id : i \in (Min(InitialEntries, 5) + 1)..5}

InitialMockStats ==
    [total_entries |-> 5 - Cardinality(InitialDeleted),
     embedded_entries |-> 5 - Cardinality(InitialDeleted),
     is_capturing |-> TRUE]

\* Math.random(), in thousandths
RandomValues == {0, 500}

\* hasMatch ? 0.7 + Math.random() * 0.25 : 0.3 + Math.random() * 0.4, in thousandths
Relevance(hasMatch, r) ==
    IF hasMatch THEN 700 + (r * 250) \div 1000 ELSE 300 + (r * 400) \div 1000

\* mockApi.search(query, k) with rnd[i] the value Math.random() gives for entry i
MockSearch(entries, q, topK, rnd) ==
    LET queryLower == ToLowerCase(q)
        scored == [i \in 1..Len(entries) |->
                     [entry |-> entries[i],
                      relevance_score |->
                          Relevance(Includes(ToLowerCase(entries[i].text), queryLower),
                                    rnd[i])]]
    IN Slice(SortDesc(scored), topK)

\* the id createEntry gives a new entry: Math.max(...mockEntries.map((e) => e.id)) + 1
NewEntryId(entries) == Plus1(MaxOf([i \in 1..Len(entries) |-> entries[i].id]))

\* mockApi.createEntry: the store after the call (tags: undefined is << >> here,
\* which is what data.tags || [] makes of it)
CreateEntryStore(entries, data) ==
    <<[id |-> NewEntryId(entries), text |-> data.text, source |-> data.source,
       tags |-> data.tags]>> \o entries

\* mockApi.deleteEntry: the store after the call
DeleteEntryStore(entries, id) ==
    LET index == FindIndex(entries, id)
    IN IF index > 0 THEN Splice1(entries, index) ELSE entries

\* DeleteEntryStats counting down whether or not the entry was found
DeleteEntryStats_Always(entries, stats, id) ==
    [stats EXCEPT !.total_entries = @ - 1, !.embedded_entries = @ - 1]

\* mockApi.deleteEntry: the counters after the call
DeleteEntryStats(entries, stats, id) ==
    IF FindIndex(entries, id) > 0
    THEN [stats EXCEPT !.total_entries = @ - 1, !.embedded_entries = @ - 1]
    ELSE stats

\* mockApi.getData(params)
MockGetData(entries, params) ==
    LET bySource == IF params.source # ""
                    THEN SelectSeq(entries, LAMBDA e : e.source = params.source)
                    ELSE entries
        byTag == IF params.tag # << >>
                 THEN SelectSeq(bySource,
                        LAMBDA e : \E i \in 1..Len(e.tags) : Includes(e.tags[i], params.tag))
                 ELSE bySource
        limit == IF params.limit # 0 THEN params.limit ELSE 50
    IN Slice(byTag, limit)

\* mockApi.query: the RAGResponse built from the search results
MockQueryResponse(request, results) ==
    [answer |-> <<"Based", " ", "\"">> \o request.query \o <<"\",", " ">>
                \o (IF results # << >> THEN Slice(results[1].entry.text, 100)
                    ELSE <<Undefined>>)
                \o <<"...">>,
     sources |-> results,
     query |-> request.query]

-----------------------------------------------------------------------------
(* mock-api: queryStream *)

\* the answer the mock streams (the sentence shortened to its first and last words)
MockStreamAnswer(request) ==
    <<"Based", " ", "\"">> \o request.query \o <<"\",", " ", "found.", " ">>

\* answer.split(" ")
MockStreamWords(request) == Split(MockStreamAnswer(request))

\* JSON.parse(JSON.stringify(searchResults)) of the sources event
JsonResults(results) ==
    [i \in 1..Len(results) |->
        [entry |-> [results[i].entry EXCEPT !.id = JsonNumber(@)],
         relevance_score |-> results[i].relevance_score]]

\* MockEvent with an empty retrieval reported as a failure
MockEvent_ErrorOnEmpty(words, i, results) ==
    IF i <= Len(words) THEN [type |-> "token", content |-> words[i] \o <<" ">>]
    ELSE IF i = Len(words) + 1
         THEN IF results = << >> THEN [type |-> "error", content |-> <<"NoContext">>]
              ELSE [type |-> "sources", content |-> JsonResults(results)]
    ELSE [type |-> "done"]

\* MockEvent with the done event dispatched ahead of the sources event
MockEvent_DoneBeforeSources(words, i, results) ==
    IF i <= Len(words) THEN [type |-> "token", content |-> words[i] \o <<" ">>]
    ELSE IF i = Len(words) + 1 THEN [type |-> "done"]
    ELSE [type |-> "sources", content |-> JsonResults(results)]

\* the i-th event the mock producer dispatches (as the listener parses it), given
\* the search results it obtains before the sources event
MockEvent(words, i, results) ==
    IF i <= Len(words) THEN [type |-> "token", content |-> words[i] \o <<" ">>]
    ELSE IF i = Len(words) + 1 THEN [type |-> "sources", content |-> JsonResults(results)]
    ELSE [type |-> "done"]

\* the stream object queryStream returns, at the moment it is returned
NewStream(backend, request, consumer) ==
    [backend |-> backend, request |-> request, consumer |-> consumer,
     next |-> 1,              \* mock: the event dispatched next; real: chunks + 1
     delivered |-> << >>,     \* events dispatched on the stream so far
     closed |-> FALSE,        \* close() has been called
     sourced |-> FALSE,       \* real: the sources event has been emitted
     term |-> FALSE,          \* real: the terminal event has been emitted
     storeSize |-> -1,        \* history: Len(mockEntries) when the mock searched
     seq |-> 0,               \* history: number of the handleSearch call that made it
     outcome |-> "open",      \* how the consumer saw it end: done / error / transport
     reported |-> FALSE]      \* history: the consumer raised an error toast for it

-----------------------------------------------------------------------------
(* use-toast: the toast store *)

\* Math.random().toString(36).substring(7)
ToastIds == {"t1", "t2"}

\* addToast(toast), id being the random id drawn
AddToast(ts, toast, id) ==
    Append(ts, [title |-> toast.title, description |-> toast.description,
                variant |-> toast.variant, id |-> id])

\* removeToast(id)
RemoveToastStore(ts, id) == SelectSeq(ts, LAMBDA t : t.id # id)

-----------------------------------------------------------------------------
(* api.ts: fetchAPI *)

\* fetchAPI: what the caller gets for a response; outcome is "ok", "http_error"
\* (response.ok false) or "network_error" (fetch rejects)
FetchAPI(outcome, body) ==
    IF outcome = "network_error" THEN [ok |-> FALSE, message |-> <<"Failed to fetch">>]
    ELSE IF outcome # "ok" THEN [ok |-> FALSE, message |-> <<"API Error">>]
    ELSE [ok |-> TRUE, value |-> body]

-----------------------------------------------------------------------------
(* search-tab.tsx: SearchTab *)

\* number of handleSearch calls that got past the blank-query check
Started == Len(reqs) + Len(SelectSeq(streams, LAMBDA st : st.consumer))

\* data.sources.map(...) of the metadata event
TransformSources(sources) ==
    [i \in 1..Len(sources) |->
        [entry |-> [id |-> sources[i].id, source |-> sources[i].source],
         relevance_score |-> sources[i].score]]

\* eventSource.onmessage, for the parsed event data on stream s; st is the stream
\* with the event already counted as delivered
OnMessage(s, st, data) ==
    CASE data.type = "answer_chunk" ->
           /\ streamingAnswer' = streamingAnswer \o data.content
           /\ streams' = [streams EXCEPT ![s] = st]
           /\ UNCHANGED <<searchResults, loading, toasts>>
      [] data.type = "metadata" ->
           /\ searchResults' = TransformSources(data.sources)
           /\ streams' = [streams EXCEPT ![s] = st]
           /\ UNCHANGED <<streamingAnswer, loading, toasts>>
      [] data.type = "done" ->
           /\ loading' = FALSE
           /\ streams' = [streams EXCEPT ![s] = [st EXCEPT !.closed = TRUE,
                                                           !.outcome = "done"]]
           /\ UNCHANGED <<streamingAnswer, searchResults, toasts>>
      [] data.type = "error" ->
           /\ \E id \in ToastIds :
                toasts' = AddToast(toasts,
                            [title |-> "Error",
                             description |-> ContentOr(data, <<"Streaming failed">>),
                             variant |-> "destructive"], id)
           /\ loading' = FALSE
           /\ streams' = [streams EXCEPT ![s] = [st EXCEPT !.closed = TRUE,
                                                           !.outcome = "error",
                                                           !.reported = TRUE]]
           /\ UNCHANGED <<streamingAnswer, searchResults>>
      [] OTHER ->
           /\ streams' = [streams EXCEPT ![s] = st]
           /\ UNCHANGED <<streamingAnswer, searchResults, loading, toasts>>

\* OnError that closes the stream and stops loading without telling the user
OnError_Silent(s) ==
    /\ loading' = FALSE
    /\ streams' = [streams EXCEPT ![s] = [@ EXCEPT !.closed = TRUE,
                                                   !.outcome = "transport"]]
    /\ UNCHANGED <<streamingAnswer, searchResults, toasts>>

\* OnError that reports the failure but leaves the stream open
OnError_KeepsOpen(s) ==
    /\ \E id \in ToastIds :
         toasts' = AddToast(toasts, [title |-> "Error",
                                     description |-> <<"Streaming failed">>,
                                     variant |-> "destructive"], id)
    /\ loading' = FALSE
    /\ streams' = [streams EXCEPT ![s] = [@ EXCEPT !.outcome = "transport",
                                                   !.reported = TRUE]]
    /\ UNCHANGED <<streamingAnswer, searchResults>>

\* eventSource.onerror on stream s
OnError(s) ==
    /\ \E id \in ToastIds :
         toasts' = AddToast(toasts, [title |-> "Error",
                                     description |-> <<"Streaming failed">>,
                                     variant |-> "destructive"], id)
    /\ loading' = FALSE
    /\ streams' = [streams EXCEPT ![s] = [@ EXCEPT !.closed = TRUE,
                                                   !.outcome = "transport",
                                                   !.reported = TRUE]]
    /\ UNCHANGED <<streamingAnswer, searchResults>>

-----------------------------------------------------------------------------
(* The streams: dispatch and the two producers *)

\* Whether assigning eventSource.onmessage made the consumer a listener of the
\* stream: it does on an EventSource; the mock stream is a bare EventTarget, which
\* has no onmessage handler attribute, so dispatchEvent calls nobody
OnMessageAttached(st) == st.consumer /\ st.backend = "real"

\* Whether the producer of the stream still emits: the browser's EventSource
\* delivers nothing after close(); the mock's close is () => {}
CanEmit(st) == st.backend = "mock" \/ (~st.closed /\ ~st.term)

\* dispatch of one event on stream s; st is the stream after the producer's step
Deliver(s, st, data) ==
    LET st1 == [st EXCEPT !.delivered = Append(@, data)]
    IN IF OnMessageAttached(st1)
       THEN OnMessage(s, st1, data)
       ELSE /\ streams' = [streams EXCEPT ![s] = st1]
            /\ UNCHANGED <<streamingAnswer, searchResults, loading, toasts>>

StreamFrame ==
    UNCHANGED <<useMock, storeVars, lastResult, query, useRag, streamEnabled, k,
                ragResponse, reqs, pollVars, uploadVars, pipeVars, sideVars,
                dataVars>>

\* mock: the loop body, await delay(50) then dispatch of words[i]
MockDispatchToken(s) ==
    LET st == streams[s]
        words == MockStreamWords(st.request)
    IN /\ st.backend = "mock" /\ CanEmit(st)
       /\ st.next <= Len(words)
       /\ Deliver(s, [st EXCEPT !.next = @ + 1], MockEvent(words, st.next, << >>))
       /\ StreamFrame

\* mock: await mockApi.search(...) then dispatch of the sources event
MockDispatchSources(s) ==
    LET st == streams[s]
        words == MockStreamWords(st.request)
    IN /\ st.backend = "mock" /\ CanEmit(st)
       /\ st.next = Len(words) + 1
       /\ \E rnd \in [1..Len(mockEntries) -> RandomValues] :
            Deliver(s, [st EXCEPT !.next = @ + 1, !.storeSize = Len(mockEntries)],
                    MockEvent(words, st.next,
                              MockSearch(mockEntries, st.request.query, st.request.k, rnd)))
       /\ StreamFrame

\* mock: dispatch of the done event
MockDispatchDone(s) ==
    LET st == streams[s]
        words == MockStreamWords(st.request)
    IN /\ st.backend = "mock" /\ CanEmit(st)
       /\ st.next = Len(words) + 2
       /\ Deliver(s, [st EXCEPT !.next = @ + 1], MockEvent(words, st.next, << >>))
       /\ StreamFrame

\* what the real back end may stream
RealChunkAt(i) == IF i % 2 = 1 THEN <<"a">> ELSE <<"b">>
RealSourceLists ==
    { << >>,
      << [id |-> 1, source |-> "clipboard", score |-> 900],
         [id |-> 2, source |-> "upload", score |-> 800] >> }
RealErrors == {<< >>, <<"ModelUnavailable">>}

\* real back end: one content fragment
RealChunk(s) ==
    LET st == streams[s]
    IN /\ st.backend = "real" /\ CanEmit(st)
       /\ st.next <= MaxChunks
       /\ Deliver(s, [st EXCEPT !.next = @ + 1],
                  [type |-> "answer_chunk", content |-> RealChunkAt(st.next)])
       /\ StreamFrame

\* real back end: the sources event, once, before the terminal event
RealSources(s) ==
    LET st == streams[s]
    IN /\ st.backend = "real" /\ CanEmit(st)
       /\ ~st.sourced
       /\ \E srcs \in RealSourceLists :
            Deliver(s, [st EXCEPT !.sourced = TRUE], [type |-> "metadata", sources |-> srcs])
       /\ StreamFrame

\* real back end: the terminal done event
RealDone(s) ==
    LET st == streams[s]
    IN /\ st.backend = "real" /\ CanEmit(st)
       /\ st.sourced
       /\ Deliver(s, [st EXCEPT !.term = TRUE], [type |-> "done"])
       /\ StreamFrame

\* real back end: the terminal error event
RealError(s) ==
    LET st == streams[s]
    IN /\ st.backend = "real" /\ CanEmit(st)
       /\ \E c \in RealErrors :
            Deliver(s, [st EXCEPT !.term = TRUE], [type |-> "error", content |-> c])
       /\ StreamFrame

\* the browser reports a transport error on the EventSource
TransportError(s) ==
    LET st == streams[s]
    IN /\ st.backend = "real" /\ ~st.closed
       /\ st.consumer
       /\ OnError(s)
       /\ StreamFrame

-----------------------------------------------------------------------------
(* The api object in mock mode, called by an arbitrary client *)

ApiQueries == {<< >>, <<"react">>}
ApiTexts == {<<"react", " ", "hooks">>}
ApiTagLists == {<< >>, << <<"css">> >>}
\* an id no entry ever has
AbsentId == 0
\* the ids a client may pass: those of the entries present and one absent
ApiIds == {mockEntries[i].id : i \in 1..Len(mockEntries)} \cup {AbsentId}
ApiParams ==
    [source : {"", "clipboard"}, tag : {<< >>, <<"doc">>}, limit : {0, 1}]

ApiFrame == UNCHANGED <<useMock, tabVars, toasts, pollVars, uploadVars, pipeVars, sideVars,
                dataVars>>

\* api.createEntry(data)
ApiCreateEntry ==
    /\ useMock /\ created < MaxCreates /\ Len(mockEntries) < MaxStore
    /\ \E text \in ApiTexts, tagList \in ApiTagLists :
         LET data == [text |-> text, source |-> "upload", tags |-> tagList]
             store == CreateEntryStore(mockEntries, data)
         IN /\ mockEntries' = store
            /\ mockStats' = [mockStats EXCEPT !.total_entries = @ + 1,
                                              !.embedded_entries = @ + 1]
            /\ lastResult' = [op |-> "createEntry", entry |-> store[1]]
    /\ created' = created + 1
    /\ UNCHANGED <<deleted, streams>>
    /\ ApiFrame

\* api.deleteEntry(id)
ApiDeleteEntry ==
    /\ useMock
    /\ \E id \in ApiIds :
         /\ mockEntries' = DeleteEntryStore(mockEntries, id)
         /\ mockStats' = DeleteEntryStats(mockEntries, mockStats, id)
         /\ deleted' = deleted \cup {id}
         /\ lastResult' = [op |-> "deleteEntry", id |-> id]
    /\ UNCHANGED <<created, streams>>
    /\ ApiFrame

\* api.search(query, k)
ApiSearch ==
    /\ useMock
    /\ \E q \in ApiQueries, topK \in 1..MaxK,
          rnd \in [1..Len(mockEntries) -> RandomValues] :
         lastResult' = [op |-> "search", topK |-> topK,
                        results |-> MockSearch(mockEntries, q, topK, rnd)]
    /\ UNCHANGED <<storeVars, streams>>
    /\ ApiFrame

\* api.query(request)
ApiQuery ==
    /\ useMock
    /\ \E q \in ApiQueries, topK \in 1..MaxK,
          rnd \in [1..Len(mockEntries) -> RandomValues] :
         lastResult' = [op |-> "query", topK |-> topK,
                        results |-> MockQueryResponse([query |-> q, k |-> topK],
                                        MockSearch(mockEntries, q, topK, rnd))]
    /\ UNCHANGED <<storeVars, streams>>
    /\ ApiFrame

\* api.getData(params)
ApiGetData ==
    /\ useMock
    /\ \E params \in ApiParams :
         lastResult' = [op |-> "getData", params |-> params,
                        results |-> MockGetData(mockEntries, params)]
    /\ UNCHANGED <<storeVars, streams>>
    /\ ApiFrame

\* api.getStats()
ApiGetStats ==
    /\ useMock
    /\ \E r \in RandomValues :
         /\ mockStats' = [mockStats EXCEPT !.is_capturing = (r > 300)]
         /\ lastResult' = [op |-> "getStats", results |-> mockStats']
    /\ UNCHANGED <<mockEntries, deleted, created, streams>>
    /\ ApiFrame

\* api.queryStream(request)
ApiQueryStream ==
    /\ useMock /\ Len(streams) < MaxApiStreams
    /\ \E q \in ApiQueries, topK \in 1..MaxK :
         streams' = Append(streams, NewStream("mock", [query |-> q, k |-> topK], FALSE))
    /\ lastResult' = [op |-> "queryStream"]
    /\ UNCHANGED storeVars
    /\ ApiFrame

\* close() on a stream queryStream returned
ApiClose ==
    /\ useMock
    /\ \E s \in 1..Len(streams) :
         /\ ~streams[s].closed
         /\ streams' = [streams EXCEPT ![s].closed = TRUE]
    /\ lastResult' = [op |-> "close"]
    /\ UNCHANGED storeVars
    /\ ApiFrame

-----------------------------------------------------------------------------
(* SearchTab: the user's actions and the responses *)

QueryInputs == {<< >>, <<" ">>, <<"react">>}

RealSearchBodies ==
    { << >>,
      << [entry |-> [id |-> 1, source |-> "clipboard"], relevance_score |-> 900] >> }

Backend == IF useMock THEN "mock" ELSE "real"

TabFrame == UNCHANGED <<useMock, storeVars, lastResult, pollVars, uploadVars, pipeVars, sideVars,
                dataVars>>

\* onChange of the query input
SetQuery ==
    /\ \E q \in QueryInputs : q # query /\ query' = q
    /\ UNCHANGED <<useRag, streamEnabled, k, loading, ragResponse, searchResults,
                   streamingAnswer, reqs, streams, toasts>>
    /\ TabFrame

\* the characters of a decimal numeral
DigitChars == <<"0", "1", "2", "3", "4", "5", "6", "7", "8", "9">>

\* Number.prototype.toString for a non-negative integer, as a sequence of characters
RECURSIVE ToDecimal(_)
ToDecimal(n) ==
    IF n < 10 THEN <<DigitChars[n + 1]>>
    ELSE Append(ToDecimal(n \div 10), DigitChars[(n % 10) + 1])

\* parseInt of a non-empty string of digits read so far as acc
RECURSIVE ParseDigits(_, _)
ParseDigits(str, acc) ==
    IF str = << >> \/ \A d \in 1..10 : DigitChars[d] # Head(str) THEN acc
    ELSE ParseDigits(Tail(str),
                     10 * acc + (CHOOSE d \in 0..9 : DigitChars[d + 1] = Head(str)))

\* the value parseInt gives for a string that does not start with a digit
NaN == -3000000

\* parseInt(str)
ParseInt(str) ==
    IF str = << >> \/ \A d \in 1..10 : DigitChars[d] # Head(str) THEN NaN
    ELSE ParseDigits(str, 0)

\* the k Slider with its range starting at 0
SliderProps_FromZero == [min |-> 0, max |-> 10]

\* the props of the k Slider
SliderProps == [min |-> 1, max |-> 10]

\* e.target.value of an <input type="range">: the numeral of a step of the range
RangeInputValues(props) == {ToDecimal(v) : v \in props.min..props.max}

\* Slider.handleChange with onValueChange = setK
SetK ==
    /\ \E value \in RangeInputValues(SliderProps) :
         /\ ParseInt(value) # k
         /\ k' = ParseInt(value)
    /\ UNCHANGED <<query, useRag, streamEnabled, loading, ragResponse, searchResults,
                   streamingAnswer, reqs, streams, toasts>>
    /\ TabFrame

\* the "Use RAG" switch
SetUseRag ==
    /\ useRag' = ~useRag
    /\ UNCHANGED <<query, streamEnabled, k, loading, ragResponse, searchResults,
                   streamingAnswer, reqs, streams, toasts>>
    /\ TabFrame

\* the "Stream Responses" switch, rendered only while useRag
SetStreamEnabled ==
    /\ useRag
    /\ streamEnabled' = ~streamEnabled
    /\ UNCHANGED <<query, useRag, k, loading, ragResponse, searchResults,
                   streamingAnswer, reqs, streams, toasts>>
    /\ TabFrame

\* handleSearch, up to its first await
HandleSearch ==
    IF Trim(query) = << >>
    THEN /\ Len(toasts) < MaxToasts
         /\ \E id \in ToastIds :
              toasts' = AddToast(toasts, [title |-> "Error",
                                          description |-> <<"Please enter a search query">>,
                                          variant |-> "destructive"], id)
         /\ UNCHANGED <<loading, ragResponse, searchResults, streamingAnswer, reqs, streams>>
    ELSE /\ Started < MaxSearches
         /\ loading' = TRUE
         /\ ragResponse' = << >>
         /\ searchResults' = << >>
         /\ streamingAnswer' = << >>
         /\ IF useRag /\ streamEnabled
            THEN /\ streams' = Append(streams,
                        [NewStream(Backend, [query |-> query, k |-> k], TRUE)
                            EXCEPT !.seq = Started + 1])
                 /\ UNCHANGED reqs
            ELSE /\ reqs' = Append(reqs,
                        [kind |-> IF useRag THEN "query" ELSE "search",
                         request |-> [query |-> query, k |-> k],
                         state |-> "pending", seq |-> Started + 1])
                 /\ UNCHANGED streams
         /\ UNCHANGED toasts

\* the Search button, disabled while loading
ClickSearch ==
    /\ ~loading
    /\ HandleSearch
    /\ UNCHANGED <<query, useRag, streamEnabled, k>>
    /\ TabFrame

\* Enter in the query input
PressEnter ==
    /\ HandleSearch
    /\ UNCHANGED <<query, useRag, streamEnabled, k>>
    /\ TabFrame

\* handleSearch after await api.search / api.query gave `result` (a FetchAPI value)
Settle(r, result) ==
    IF result.ok
    THEN /\ IF reqs[r].kind = "search"
            THEN searchResults' = result.value /\ UNCHANGED ragResponse
            ELSE ragResponse' = <<result.value>> /\ UNCHANGED searchResults
         /\ loading' = FALSE
         /\ reqs' = [reqs EXCEPT ![r].state = "ok"]
         /\ UNCHANGED toasts
    ELSE /\ \E id \in ToastIds :
              toasts' = AddToast(toasts, [title |-> "Error",
                                          description |-> result.message,
                                          variant |-> "destructive"], id)
         /\ loading' = FALSE
         /\ reqs' = [reqs EXCEPT ![r].state = "failed"]
         /\ UNCHANGED <<ragResponse, searchResults>>

\* the mock back end answers request r
MockRespond(r) ==
    /\ useMock /\ reqs[r].state = "pending"
    /\ \E rnd \in [1..Len(mockEntries) -> RandomValues] :
         LET results == MockSearch(mockEntries, reqs[r].request.query,
                                   reqs[r].request.k, rnd)
         IN Settle(r, [ok |-> TRUE,
                       value |-> IF reqs[r].kind = "search" THEN results
                                 ELSE MockQueryResponse(reqs[r].request, results)])
    /\ UNCHANGED <<query, useRag, streamEnabled, k, streamingAnswer, streams>>
    /\ TabFrame

\* the real back end answers request r, or the request fails
RealRespond(r) ==
    /\ ~useMock /\ reqs[r].state = "pending"
    /\ \E outcome \in {"ok", "http_error", "network_error"}, body \in RealSearchBodies :
         Settle(r, FetchAPI(outcome,
                            IF reqs[r].kind = "search" THEN body
                            ELSE [answer |-> <<"a">>, sources |-> body,
                                  query |-> reqs[r].request.query]))
    /\ UNCHANGED <<query, useRag, streamEnabled, k, streamingAnswer, streams>>
    /\ TabFrame

\* a toast is dismissed (its 5 s timer, or its close button)
RemoveToast ==
    /\ \E i \in 1..Len(toasts) : toasts' = RemoveToastStore(toasts, toasts[i].id)
    /\ UNCHANGED <<useMock, storeVars, lastResult, streams, tabVars, pollVars,
                   uploadVars, pipeVars, sideVars,
                dataVars>>

-----------------------------------------------------------------------------
(* search-tab.tsx: UploadTab, the tag list *)

\* what the user may have typed in the tag input
TagInputs ==
    {<< >>, <<" ">>, <<"a">>, <<" ", "a", " ">>, <<"b">>, <<"a", " ", "b">>, <<"c">>}

UploadFrame ==
    UNCHANGED <<useMock, storeVars, lastResult, streams, tabVars, toasts, pollVars,
                pipeVars, sideVars, dataVars>>

\* tags.includes(tag)
TagsInclude(ts, tag) == \E i \in 1..Len(ts) : ts[i] = tag

\* AddTagResult without the includes check
AddTagResult_NoIncludes(ts, input) ==
    LET tag == Trim(input)
    IN IF tag # << >>
       THEN [tags |-> Append(ts, tag), tagInput |-> << >>]
       ELSE [tags |-> ts, tagInput |-> input]

\* handleAddTag for Enter or ",": the tags and the tag input after it
AddTagResult(ts, input) ==
    LET tag == Trim(input)
    IN IF tag # << >> /\ ~TagsInclude(ts, tag)
       THEN [tags |-> Append(ts, tag), tagInput |-> << >>]
       ELSE [tags |-> ts, tagInput |-> input]

\* onChange of the tag input
SetTagInput ==
    /\ \E input \in TagInputs : input # tagInput /\ tagInput' = input
    /\ UNCHANGED <<tags, files, uploading, uploadRuns, entriesOf>>
    /\ UploadFrame

\* onKeyDown of the tag input with Enter or ","
HandleAddTag ==
    /\ tags' = AddTagResult(tags, tagInput).tags
    /\ tagInput' = AddTagResult(tags, tagInput).tagInput
    /\ UNCHANGED <<files, uploading, uploadRuns, entriesOf>>
    /\ UploadFrame

\* click on the badge of a tag
RemoveTag ==
    /\ \E i \in 1..Len(tags) : tags' = SelectSeq(tags, LAMBDA t : t # tags[i])
    /\ UNCHANGED <<tagInput, files, uploading, uploadRuns, entriesOf>>
    /\ UploadFrame

-----------------------------------------------------------------------------
(* search-tab.tsx: UploadTab, the files and handleUpload *)

\* the files the user selects, one id per selection
FileIds == 1..MaxFiles

\* file.content of a selected file
FileContent(f) == <<"file", ToDecimal(f)[1]>>

\* the frame of the upload actions, which use the toast store and the back end
UploadRunFrame ==
    UNCHANGED <<useMock, lastResult, streams, tabVars, pollVars, pipeVars, sideVars,
                dataVars>>

\* handleFiles with one valid file: it is appended to the selection
HandleFiles ==
    /\ \E f \in FileIds :
         /\ entriesOf[f] = 0 /\ \A i \in 1..Len(files) : files[i] # f
         /\ \A u \in 1..Len(uploadRuns) : \A i \in 1..Len(uploadRuns[u].files) :
                uploadRuns[u].files[i] # f
         /\ files' = Append(files, f)
    /\ UNCHANGED <<tags, tagInput, uploading, uploadRuns, entriesOf, storeVars, toasts>>
    /\ UploadRunFrame

\* removeFile(index)
RemoveFile ==
    /\ \E index \in 1..Len(files) : files' = Splice1(files, index)
    /\ UNCHANGED <<tags, tagInput, uploading, uploadRuns, entriesOf, storeVars, toasts>>
    /\ UploadRunFrame

\* the Upload button (disabled while uploading or without files): handleUpload
\* up to its first await
ClickUpload ==
    /\ ~uploading /\ Len(files) # 0
    /\ Len(uploadRuns) < MaxUploads
    /\ uploading' = TRUE
    /\ uploadRuns' = Append(uploadRuns, [files |-> files, tags |-> tags, pos |-> 1,
                                         state |-> "running"])
    /\ UNCHANGED <<tags, tagInput, files, entriesOf, storeVars, toasts>>
    /\ UploadRunFrame

\* handleUpload of run u after await api.createEntry succeeded for the file at
\* its position: the next file, or the success branch and finally
CreateEntryOk(u) ==
    LET run == uploadRuns[u]
        f == run.files[run.pos]
        data == [text |-> FileContent(f), source |-> "upload", tags |-> run.tags]
    IN /\ run.state = "running"
       /\ entriesOf' = [entriesOf EXCEPT ![f] = @ + 1]
       /\ IF useMock
          THEN /\ mockEntries' = CreateEntryStore(mockEntries, data)
               /\ mockStats' = [mockStats EXCEPT !.total_entries = @ + 1,
                                                 !.embedded_entries = @ + 1]
               /\ created' = created + 1
               /\ UNCHANGED deleted
          ELSE UNCHANGED storeVars
       /\ IF run.pos < Len(run.files)
          THEN /\ uploadRuns' = [uploadRuns EXCEPT ![u].pos = @ + 1]
               /\ UNCHANGED <<tags, files, uploading, toasts>>
          ELSE /\ uploadRuns' = [uploadRuns EXCEPT ![u].state = "done"]
               /\ \E id \in ToastIds :
                    toasts' = AddToast(toasts, [title |-> "Success",
                                                description |-> <<"uploaded">>,
                                                variant |-> "success"], id)
               /\ files' = << >>
               /\ tags' = << >>
               /\ uploading' = FALSE
       /\ UNCHANGED tagInput
       /\ UploadRunFrame

\* handleUpload of run u after await api.createEntry rejected: catch and finally
CreateEntryFail(u) ==
    /\ ~useMock /\ uploadRuns[u].state = "running"
    /\ uploadRuns' = [uploadRuns EXCEPT ![u].state = "failed"]
    /\ \E id \in ToastIds :
         toasts' = AddToast(toasts, [title |-> "Error",
                                     description |-> <<"Failed to upload files">>,
                                     variant |-> "destructive"], id)
    /\ uploading' = FALSE
    /\ UNCHANGED <<tags, tagInput, files, entriesOf, storeVars>>
    /\ UploadRunFrame

-----------------------------------------------------------------------------
(* page.tsx: Home, the notification poller; the notification log it polls *)

\* a title is a string here; "" stands for a notification without the property
NotifTitles == {"", "Embedded"}

\* mockApi.getNotifications: the same single notification, whatever the params
MockNotifications ==
    << [id |-> 1, title |-> "", message |-> <<"5", " ", "new">>, read |-> FALSE] >>

\* the log's list(since_id, unread_only, limit): ascending id, above since_id
BusList(log, params) ==
    Slice(SelectSeq(log, LAMBDA n : /\ n.id > params.since_id
                                    /\ (params.unread_only => ~n.read)),
          params.limit)

\* the log's mark_read(id)
BusMarkRead(log, id) ==
    [i \in 1..Len(log) |-> IF log[i].id = id THEN [log[i] EXCEPT !.read = TRUE] ELSE log[i]]

\* if (notif && notif.title): the notification is shown as a toast
ShowsToast(notif) == notif.title # ""

\* the notifications of a response the first forEach shows, in order
ToastedOf(notifications) == SelectSeq(notifications, ShowsToast)

\* CursorAfter taking the id of every notification shown, without comparing
RECURSIVE CursorAfter_NoCompare(_, _)
CursorAfter_NoCompare(cursor, notifications) ==
    IF notifications = << >> THEN cursor
    ELSE LET notif == Head(notifications)
         IN CursorAfter_NoCompare(IF ShowsToast(notif) /\ notif.id # 0
                                  THEN notif.id ELSE cursor,
                                  Tail(notifications))

\* lastNotificationId.current after the first forEach over the response
RECURSIVE CursorAfter(_, _)
CursorAfter(cursor, notifications) ==
    IF notifications = << >> THEN cursor
    ELSE LET notif == Head(notifications)
         IN CursorAfter(IF ShowsToast(notif) /\ notif.id # 0 /\ notif.id > cursor
                        THEN notif.id ELSE cursor,
                        Tail(notifications))

\* the ids for which the second forEach calls api.markNotificationRead
MarkReadIdsOf(notifications) ==
    {notifications[i].id : i \in {j \in 1..Len(notifications) : notifications[j].id # 0}}

\* the toast store after the toasts of the response, ids[i] the i-th random id
RECURSIVE AddToasts(_, _, _)
AddToasts(ts, notifications, ids) ==
    IF notifications = << >> THEN ts
    ELSE AddToasts(AddToast(ts, [title |-> Head(notifications).title,
                                 description |-> Head(notifications).message,
                                 variant |-> "default"], Head(ids)),
                   Tail(notifications), Tail(ids))

PollFrame ==
    UNCHANGED <<useMock, storeVars, lastResult, streams, tabVars, uploadVars, pipeVars, sideVars,
                dataVars>>

\* the back end publishes a notification (real back end)
Publish ==
    /\ ~useMock /\ Len(bus) < MaxNotifs
    /\ \E title \in NotifTitles :
         bus' = Append(bus, [id |-> Len(bus) + 1, title |-> title,
                             message |-> <<"done">>, read |-> FALSE])
    /\ UNCHANGED <<lastNotificationId, polls, markReads, shown, toasts>>
    /\ PollFrame

\* pollNotifications is called (on mount, then every 2 s): the request goes out
PollStart ==
    /\ Len(polls) < MaxPolls
    /\ polls' = Append(polls, [params |-> [since_id |-> lastNotificationId,
                                           unread_only |-> TRUE, limit |-> 10],
                               state |-> "sent", notifications |-> << >>])
    /\ UNCHANGED <<lastNotificationId, bus, markReads, shown, toasts>>
    /\ PollFrame

\* the back end answers poll p
PollAnswer(p) ==
    /\ polls[p].state = "sent"
    /\ polls' = [polls EXCEPT ![p] =
                   [@ EXCEPT !.state = "answered",
                             !.notifications = IF useMock THEN MockNotifications
                                               ELSE BusList(bus, polls[p].params)]]
    /\ UNCHANGED <<lastNotificationId, bus, markReads, shown, toasts>>
    /\ PollFrame

\* the request of poll p fails: caught and logged
PollFail(p) ==
    /\ ~useMock /\ polls[p].state = "sent"
    /\ polls' = [polls EXCEPT ![p].state = "failed"]
    /\ UNCHANGED <<lastNotificationId, bus, markReads, shown, toasts>>
    /\ PollFrame

\* pollNotifications after its await: the response of poll p is handled
PollHandle(p) ==
    LET notifications == polls[p].notifications
        toasted == ToastedOf(notifications)
    IN /\ polls[p].state = "answered"
       /\ \E ids \in [1..Len(toasted) -> ToastIds] :
            toasts' = AddToasts(toasts, toasted, ids)
       /\ shown' = shown \cup {toasted[i].id : i \in 1..Len(toasted)}
       /\ lastNotificationId' = CursorAfter(lastNotificationId, notifications)
       /\ markReads' = markReads \cup MarkReadIdsOf(notifications)
       /\ polls' = [polls EXCEPT ![p].state = "handled"]
       /\ UNCHANGED bus
       /\ PollFrame

\* a markNotificationRead request reaches the back end (the mock does nothing)
MarkReadArrive ==
    /\ \E id \in markReads :
         /\ markReads' = markReads \ {id}
         /\ bus' = IF useMock THEN bus ELSE BusMarkRead(bus, id)
    /\ UNCHANGED <<lastNotificationId, polls, shown, toasts>>
    /\ PollFrame

\* a markNotificationRead request fails: .catch(() => {})
MarkReadFail ==
    /\ ~useMock
    /\ \E id \in markReads : markReads' = markReads \ {id}
    /\ UNCHANGED <<lastNotificationId, bus, polls, shown, toasts>>
    /\ PollFrame

\* the params a client may pass to api.getNotifications
NotificationParams ==
    [since_id : 0..MaxNotifs, unread_only : BOOLEAN, limit : {10}]

\* api.getNotifications(params), the response as the caller receives it
ApiGetNotifications ==
    /\ \E params \in NotificationParams :
         lastResult' = [op |-> "getNotifications", params |-> params,
                        results |-> [notifications |->
                                       IF useMock THEN MockNotifications
                                       ELSE BusList(bus, params)]]
    /\ UNCHANGED <<useMock, storeVars, streams, tabVars, toasts, pollVars,
                   uploadVars, pipeVars, sideVars,
                dataVars>>

-----------------------------------------------------------------------------
(* The embedding pipeline, the entry store's embedding_status and the vector  *)
(* index. estatus[e] is the embedding_status of entry e, or "absent" for an   *)
(* id not yet assigned and "deleted" for an entry that was deleted.           *)

PipeFrame ==
    UNCHANGED <<useMock, storeVars, lastResult, streams, tabVars, toasts, pollVars,
                uploadVars, sideVars, dataVars>>

\* whether the entry exists in the entry store
EntryExists(e) == estatus[e] \in {"pending", "embedded", "failed"}

\* the entries that running tasks hold
InRunningTask ==
    UNION {tasks[t].remaining : t \in {u \in 1..Len(tasks) : tasks[u].state = "running"}}

\* Claimable taking an entry whatever its status
Claimable_AnyStatus(e) == EntryExists(e) /\ e \notin InRunningTask

\* whether the pipeline takes the entry into a batch: it exists, it is pending
\* (an embedded entry is not embedded again) and no task holds it
Claimable(e) == estatus[e] = "pending" /\ e \notin InRunningTask

\* Requeueable letting any finished entry be re-queued
Requeueable_AnyTerminal(e) == estatus[e] \in {"failed", "embedded"}

\* whether the entry may be re-queued
Requeueable(e) == estatus[e] = "failed"

\* Exhausted allowing one attempt more than configured
Exhausted_OneMore(attempts) == attempts > MaxAttempts

\* whether a task that made `attempts` attempts has used up its retries
Exhausted(attempts) == attempts >= MaxAttempts

\* StatusAfterAttempt forgetting to mark the entries of a task given up
StatusAfterAttempt_LeavesPending(st, committed, givenUp) ==
    IF committed THEN "embedded" ELSE st

\* the embedding_status an entry of a task has after an attempt: embedded when
\* its vector was committed, failed when the task was given up, else unchanged
StatusAfterAttempt(st, committed, givenUp) ==
    IF committed THEN "embedded" ELSE IF givenUp THEN "failed" ELSE st

\* the elements of a sequence
Range(q) == {q[i] : i \in 1..Len(q)}

\* publish(kind, message) by the pipeline for task t
PipePublish(log, kind, t) == Append(log, [kind |-> kind, task |-> t])

\* the capture/upload path stores a new entry and pushes its id into the intake
\* queue; it blocks while the queue is full
PipeInsert ==
    /\ Len(intake) < QueueCapacity
    /\ \E e \in EntryIds :
         /\ estatus[e] = "absent"
         /\ \A d \in EntryIds : d < e => estatus[d] # "absent"
         /\ estatus' = [estatus EXCEPT ![e] = "pending"]
         /\ intake' = Append(intake, e)
    /\ UNCHANGED <<vectors, tasks, events, healthy, requeued>>
    /\ PipeFrame

\* delete_entry(e): the entry goes and its Vector Record with it (cascade)
PipeDelete ==
    /\ \E e \in EntryIds :
         /\ EntryExists(e)
         /\ estatus' = [estatus EXCEPT ![e] = "deleted"]
         /\ vectors' = [vectors EXCEPT ![e] = 0]
    /\ UNCHANGED <<intake, tasks, events, healthy, requeued>>
    /\ PipeFrame

\* a failed entry is re-queued (manually or periodically)
PipeRequeue ==
    /\ requeued < MaxRequeues /\ Len(intake) < QueueCapacity
    /\ \E e \in EntryIds :
         /\ Requeueable(e)
         /\ estatus' = [estatus EXCEPT ![e] = "pending"]
         /\ intake' = Append(intake, e)
    /\ requeued' = requeued + 1
    /\ UNCHANGED <<vectors, tasks, events, healthy>>
    /\ PipeFrame

\* the pipeline is run again over an entry it was given before (a restart, a
\* repeated push)
PipeRepush ==
    /\ Len(intake) < QueueCapacity
    /\ \E e \in EntryIds :
         /\ estatus[e] # "absent" /\ e \notin Range(intake)
         /\ intake' = Append(intake, e)
    /\ UNCHANGED <<estatus, vectors, tasks, events, healthy, requeued>>
    /\ PipeFrame

\* a worker pulls up to BatchSize ids from the intake queue and makes a task of
\* those it takes
PipeFormBatch ==
    LET n == Min(BatchSize, Len(intake))
        batch == {e \in Range(SubSeq(intake, 1, n)) : Claimable(e)}
    IN /\ n >= 1
       /\ intake' = SubSeq(intake, n + 1, Len(intake))
       /\ tasks' = IF batch = {} THEN tasks
                   ELSE Append(tasks, [batch |-> batch, remaining |-> batch,
                                       attempts |-> 0, state |-> "running",
                                       everOk |-> FALSE])
       /\ UNCHANGED <<estatus, vectors, events, healthy, requeued>>
       /\ PipeFrame

\* one attempt of task t: embed_batch answers for the items in ok and fails for
\* the others; the items answered are committed, the others are retried, or
\* failed when the attempts are used up
PipeAttempt(t) ==
    /\ tasks[t].state = "running"
    /\ \E ok \in SUBSET tasks[t].remaining :
         LET found == {e \in tasks[t].remaining : EntryExists(e)}
             commit == ok \cap found
             left == found \ ok
             attempts == tasks[t].attempts + 1
             giveUp == left # {} /\ Exhausted(attempts)
         IN /\ healthy => ok = tasks[t].remaining
            /\ estatus' = [e \in EntryIds |->
                             StatusAfterAttempt(estatus[e], e \in commit,
                                                giveUp /\ e \in left)]
            /\ vectors' = [e \in EntryIds |->
                             IF e \in commit THEN vectors[e] + 1 ELSE vectors[e]]
            /\ tasks' = [tasks EXCEPT ![t] =
                           [@ EXCEPT !.remaining = left,
                                     !.attempts = attempts,
                                     !.everOk = @ \/ ok # {},
                                     !.state = IF left = {} THEN "done"
                                               ELSE IF giveUp THEN "exhausted"
                                               ELSE "running"]]
            /\ events' = IF left = {} THEN PipePublish(events, "progress", t)
                         ELSE IF giveUp THEN PipePublish(events, "failure", t)
                         ELSE events
    /\ UNCHANGED <<intake, healthy, requeued>>
    /\ PipeFrame

\* the model service goes down or comes back
PipeHealth ==
    /\ healthy' = ~healthy
    /\ UNCHANGED <<estatus, vectors, intake, tasks, events, requeued>>
    /\ PipeFrame

-----------------------------------------------------------------------------
(* Sidebar: the system status *)

\* useState<SystemStatus | null>(null); seq is the number of the api.getStatus
\* call whose response the status is, 0 for null
NoStatus == [seq |-> 0, capturing |-> FALSE]

SideFrame ==
    UNCHANGED <<useMock, storeVars, lastResult, streams, tabVars, toasts, pollVars,
                uploadVars, pipeVars, dataVars>>

\* the requests handleToggleCapture and fetchStatus may still send
SideBudget == Len(statusReqs) + (IF control # "none" THEN 1 ELSE 0)

\* fetchStatus up to its await: api.getStatus() goes out
FetchStatus(origin) == Append(statusReqs, [origin |-> origin, state |-> "sent"])

\* useEffect: fetchStatus on mount and every 5 seconds
StatusTick ==
    /\ SideBudget < MaxStatusReqs
    /\ statusReqs' = FetchStatus("timer")
    /\ UNCHANGED <<status, refreshing, toggling, refreshTimer, control>>
    /\ SideFrame

\* the Refresh button (rendered once there is a status, disabled while
\* refreshing): handleRefresh up to its await
ClickRefresh ==
    /\ status # NoStatus /\ ~refreshing
    /\ SideBudget < MaxStatusReqs
    /\ refreshing' = TRUE
    /\ statusReqs' = FetchStatus("refresh")
    /\ UNCHANGED <<status, toggling, refreshTimer, control>>
    /\ SideFrame

\* the capture button (disabled while toggling): handleToggleCapture up to its
\* first await
ClickToggleCapture ==
    /\ status # NoStatus /\ ~toggling
    /\ SideBudget < MaxStatusReqs
    /\ toggling' = TRUE
    /\ control' = IF status.capturing THEN "stop" ELSE "start"
    /\ UNCHANGED <<status, refreshing, statusReqs, refreshTimer>>
    /\ SideFrame

\* handleToggleCapture after api.stopCapture / api.startCapture resolved:
\* fetchStatus is called
ControlOk ==
    /\ control # "none"
    /\ control' = "none"
    /\ statusReqs' = FetchStatus("toggle")
    /\ UNCHANGED <<status, refreshing, toggling, refreshTimer>>
    /\ SideFrame

\* handleToggleCapture after the control request rejected: catch and finally
ControlFail ==
    /\ control # "none"
    /\ control' = "none"
    /\ toggling' = FALSE
    /\ UNCHANGED <<status, refreshing, statusReqs, refreshTimer>>
    /\ SideFrame

\* what the caller of fetchStatus does once fetchStatus has returned
AfterFetchStatus(origin) ==
    /\ toggling' = IF origin = "toggle" THEN FALSE ELSE toggling
    /\ refreshTimer' = IF origin = "refresh" THEN TRUE ELSE refreshTimer
    /\ UNCHANGED <<refreshing, control>>

\* fetchStatus after api.getStatus resolved for request r: setStatus(data)
StatusOk(r) ==
    /\ statusReqs[r].state = "sent"
    /\ \E capturing \in BOOLEAN : status' = [seq |-> r, capturing |-> capturing]
    /\ statusReqs' = [statusReqs EXCEPT ![r].state = "ok"]
    /\ AfterFetchStatus(statusReqs[r].origin)
    /\ SideFrame

\* fetchStatus after api.getStatus rejected for request r: logged
StatusFail(r) ==
    /\ statusReqs[r].state = "sent"
    /\ statusReqs' = [statusReqs EXCEPT ![r].state = "failed"]
    /\ AfterFetchStatus(statusReqs[r].origin)
    /\ UNCHANGED status
    /\ SideFrame

\* setTimeout(() => setRefreshing(false), 500)
RefreshTimeout ==
    /\ refreshTimer
    /\ refreshTimer' = FALSE
    /\ refreshing' = FALSE
    /\ UNCHANGED <<status, toggling, statusReqs, control>>
    /\ SideFrame

-----------------------------------------------------------------------------
(* settings-tab.tsx: DataTab, the data browser, on the mock back end *)

\* the filters fetchData sends: source, tag and limit of the state
DataParams == [source : {"", "clipboard"}, tag : {<< >>}, limit : {50}]

DataFrame ==
    UNCHANGED <<useMock, lastResult, streams, tabVars, pollVars, uploadVars, pipeVars,
                sideVars>>

\* the ids of a list of entries
IdsOf(entries) == [i \in 1..Len(entries) |-> entries[i].id]

\* fetchData up to its await (on mount, and the Apply Filters button, which is
\* disabled while loading)
FetchData ==
    /\ useMock /\ ~dataLoading /\ deleteId = 0
    /\ Len(fetches) < MaxFetches
    /\ dataLoading' = TRUE
    /\ \E params \in DataParams :
         fetches' = Append(fetches, [params |-> params, state |-> "sent"])
    /\ UNCHANGED <<dataEntries, deleteId, deletes, storeVars, toasts>>
    /\ DataFrame

\* fetchData after await api.getData resolved for call x: setEntries, finally
FetchDataOk(x) ==
    /\ fetches[x].state = "sent"
    /\ dataEntries' = IdsOf(MockGetData(mockEntries, fetches[x].params))
    /\ dataLoading' = FALSE
    /\ fetches' = [fetches EXCEPT ![x].state = "ok"]
    /\ UNCHANGED <<deleteId, deletes, storeVars, toasts>>
    /\ DataFrame

\* the trash button of a listed entry: setDeleteId(entry.id) opens the dialog
ClickTrash ==
    /\ ~dataLoading /\ deleteId = 0
    /\ \E i \in 1..Len(dataEntries) : deleteId' = dataEntries[i]
    /\ UNCHANGED <<dataEntries, dataLoading, fetches, deletes, storeVars, toasts>>
    /\ DataFrame

\* the dialog's Cancel button, or closing the dialog: setDeleteId(null)
CancelDelete ==
    /\ deleteId # 0
    /\ deleteId' = 0
    /\ UNCHANGED <<dataEntries, dataLoading, fetches, deletes, storeVars, toasts>>
    /\ DataFrame

\* the dialog's Delete button: handleDelete up to its await, with the entries
\* and the deleteId of the render it was made in
ClickDelete ==
    /\ useMock /\ deleteId # 0
    /\ Len(deletes) < MaxDeletes
    /\ deletes' = Append(deletes, [id |-> deleteId, entries |-> dataEntries,
                                   state |-> "sent"])
    /\ UNCHANGED <<dataEntries, dataLoading, deleteId, fetches, storeVars, toasts>>
    /\ DataFrame

\* the list handleDelete sets: entries.filter((e) => e.id !== deleteId)
FilterOut(entries, id) == SelectSeq(entries, LAMBDA e : e # id)

\* mockApi.deleteEntry runs for call x and handleDelete continues after its
\* await: setEntries, the toast, setDeleteId(null)
HandleDeleteOk(x) ==
    LET id == deletes[x].id
    IN /\ deletes[x].state = "sent"
       /\ mockEntries' = DeleteEntryStore(mockEntries, id)
       /\ mockStats' = DeleteEntryStats(mockEntries, mockStats, id)
       /\ deleted' = deleted \cup {id}
       /\ dataEntries' = FilterOut(deletes[x].entries, id)
       /\ \E tid \in ToastIds :
            toasts' = AddToast(toasts, [title |-> "Success",
                                        description |-> <<"Entry deleted successfully">>,
                                        variant |-> "success"], tid)
       /\ deleteId' = 0
       /\ deletes' = [deletes EXCEPT ![x].state = "ok"]
       /\ UNCHANGED <<dataLoading, fetches, created>>
       /\ DataFrame

-----------------------------------------------------------------------------
(* Specifications *)

Init ==
    /\ useMock \in BOOLEAN
    /\ mockEntries = InitialMockEntries
    /\ mockStats = InitialMockStats
    /\ deleted = InitialDeleted
    /\ created = 0
    /\ lastResult = [op |-> "none"]
    /\ streams = << >>
    /\ query = << >>
    /\ useRag = TRUE
    /\ streamEnabled = TRUE
    /\ k = 5
    /\ loading = FALSE
    /\ ragResponse = << >>
    /\ searchResults = << >>
    /\ streamingAnswer = << >>
    /\ reqs = << >>
    /\ toasts = << >>
    /\ lastNotificationId = 0
    /\ bus = << >>
    /\ polls = << >>
    /\ markReads = {}
    /\ shown = {}
    /\ tags = << >>
    /\ tagInput = << >>
    /\ files = << >>
    /\ uploading = FALSE
    /\ uploadRuns = << >>
    /\ entriesOf = [f \in FileIds |-> 0]
    /\ estatus = [e \in EntryIds |-> "absent"]
    /\ vectors = [e \in EntryIds |-> 0]
    /\ intake = << >>
    /\ tasks = << >>
    /\ events = << >>
    /\ healthy = TRUE
    /\ requeued = 0
    /\ status = NoStatus
    /\ refreshing = FALSE
    /\ toggling = FALSE
    /\ statusReqs = << >>
    /\ refreshTimer = FALSE
    /\ control = "none"
    /\ dataEntries = << >>
    /\ dataLoading = FALSE
    /\ deleteId = 0
    /\ fetches = << >>
    /\ deletes = << >>

StreamNext ==
    \E s \in 1..Len(streams) :
        \/ MockDispatchToken(s)
        \/ MockDispatchSources(s)
        \/ MockDispatchDone(s)
        \/ RealChunk(s)
        \/ RealSources(s)
        \/ RealDone(s)
        \/ RealError(s)
        \/ TransportError(s)

\* the search tab and the promise-based requests (api.search, api.query) it makes,
\* on either back end
NextSearch ==
    \/ SetQuery
    \/ SetUseRag
    \/ SetStreamEnabled
    \/ ClickSearch
    \/ PressEnter
    \/ \E r \in 1..Len(reqs) : MockRespond(r)
    \/ \E r \in 1..Len(reqs) : RealRespond(r)

SpecSearch == Init /\ [][NextSearch]_vars

\* the search tab as it starts, RAG with streaming, on either back end
NextStream ==
    \/ SetQuery
    \/ ClickSearch
    \/ PressEnter
    \/ StreamNext

SpecStream == Init /\ [][NextStream]_vars

\* the producers keep running: the mock's loop after each delay, the back end's
\* stream until its terminal event or the transport's failure
SpecStreamFair == SpecStream /\ WF_vars(StreamNext)

\* the SearchTab's controls and the requests they send, on either back end
NextSlider ==
    \/ SetQuery
    \/ SetK
    \/ SetUseRag
    \/ SetStreamEnabled
    \/ ClickSearch
    \/ PressEnter

SpecSlider == Init /\ [][NextSlider]_vars

\* the embedding pipeline with the entry store and the vector index
NextPipe ==
    \/ PipeInsert
    \/ PipeDelete
    \/ PipeRequeue
    \/ PipeRepush
    \/ PipeFormBatch
    \/ \E t \in 1..Len(tasks) : PipeAttempt(t)
    \/ PipeHealth

SpecPipe == Init /\ [][NextPipe]_vars

\* the pipeline's worker keeps running: batches are formed and attempted
SpecPipeFair ==
    /\ SpecPipe
    /\ WF_vars(PipeFormBatch)
    /\ WF_vars(\E t \in 1..Len(tasks) : PipeAttempt(t))

\* the UploadTab's files and uploads, on either back end
NextUpload ==
    \/ HandleFiles
    \/ RemoveFile
    \/ ClickUpload
    \/ \E u \in 1..Len(uploadRuns) : CreateEntryOk(u)
    \/ \E u \in 1..Len(uploadRuns) : CreateEntryFail(u)

SpecUpload == Init /\ [][NextUpload]_vars

\* the DataTab on the mock back end
NextData ==
    \/ FetchData
    \/ \E x \in 1..Len(fetches) : FetchDataOk(x)
    \/ ClickTrash
    \/ CancelDelete
    \/ ClickDelete
    \/ \E x \in 1..Len(deletes) : HandleDeleteOk(x)


\* the Sidebar and its status requests
NextSide ==
    \/ StatusTick
    \/ ClickRefresh
    \/ ClickToggleCapture
    \/ ControlOk
    \/ ControlFail
    \/ \E r \in 1..Len(statusReqs) : StatusOk(r)
    \/ \E r \in 1..Len(statusReqs) : StatusFail(r)
    \/ RefreshTimeout

SpecSide == Init /\ [][NextSide]_vars

\* the tag list of the UploadTab
NextTags ==
    \/ SetTagInput
    \/ HandleAddTag
    \/ RemoveTag

SpecTags == Init /\ [][NextTags]_vars

\* the notification poller and the notification log, on either back end
NextPoll ==
    \/ Publish
    \/ PollStart
    \/ \E p \in 1..Len(polls) : PollAnswer(p)
    \/ \E p \in 1..Len(polls) : PollFail(p)
    \/ \E p \in 1..Len(polls) : PollHandle(p)
    \/ MarkReadArrive
    \/ MarkReadFail
    \/ RemoveToast
    \/ ApiGetNotifications

SpecPoll == Init /\ [][NextPoll]_vars

\* the api object in mock mode and its client
InitApi == Init /\ useMock

NextApi ==
    \/ ApiGetStats
    \/ ApiCreateEntry
    \/ ApiDeleteEntry
    \/ ApiSearch
    \/ ApiQuery
    \/ ApiGetData

SpecApi == InitApi /\ [][NextApi]_vars

\* the DataTab with the mock store behind it
SpecData == InitApi /\ [][NextData]_vars

\* the streams of the api object in mock mode and their client, over a changing store
NextApiStream ==
    \/ ApiCreateEntry
    \/ ApiDeleteEntry
    \/ ApiQueryStream
    \/ ApiClose
    \/ \E s \in 1..Len(streams) :
        \/ MockDispatchToken(s)
        \/ MockDispatchSources(s)
        \/ MockDispatchDone(s)

SpecApiStream == InitApi /\ [][NextApiStream]_vars

\* RAG queries, streamed and not, against a mock store that entries are deleted from
NextApiRag ==
    \/ ApiDeleteEntry
    \/ ApiQuery
    \/ ApiQueryStream
    \/ \E s \in 1..Len(streams) :
         \/ MockDispatchToken(s)
         \/ MockDispatchSources(s)
         \/ MockDispatchDone(s)

SpecApiRag == InitApi /\ [][NextApiRag]_vars

-----------------------------------------------------------------------------
(* Properties of search results (SpecApi) *)

\* the entry ids of a list of search results or of entries
ResultIds(results) ==
    [i \in 1..Len(results) |->
        IF "entry" \in DOMAIN results[i] THEN results[i].entry.id ELSE results[i].id]

\* the entries a search, query or getData result carries
ResultList(result) ==
    IF result.op = "search" THEN result.results
    ELSE IF result.op = "query" THEN result.results.sources
    ELSE IF result.op = "getData" THEN result.results
    ELSE << >>

\* C7: search(q, k) returns at most k candidates, strictly descending by score
\* (no two adjacent candidates have equal score), and no entry id appears twice.
C7_SearchStrictlyDescendingNoDuplicates ==
    lastResult.op = "search" =>
        LET results == lastResult.results
            ids == ResultIds(results)
        IN /\ Len(results) <= lastResult.topK
           /\ \A i \in 1..(Len(results) - 1) :
                results[i].relevance_score > results[i + 1].relevance_score
           /\ \A i, j \in 1..Len(results) : i # j => ids[i] # ids[j]

\* C8: after deleteEntry(id) has completed, no later search, query or getData
\* result contains an entry with that id.
C8_DeletedIdNeverReturned ==
    LET ids == ResultIds(ResultList(lastResult))
    IN \A i \in 1..Len(ids) : ids[i] \notin deleted

-----------------------------------------------------------------------------
(* Properties of the mock stream seen through the api object (SpecApiStream, SpecApiRag) *)

\* C4: after the consumer has called close() on a stream that has delivered its
\* first fragment, the producer emits no further event for that stream.
C4_NoEventAfterClose ==
    [][\A s \in 1..Len(streams) :
          (streams[s].closed /\ Len(streams[s].delivered) >= 1)
              => streams'[s].delivered = streams[s].delivered]_vars

\* C6: with no entries in the store a RAG query is still answered. Streamed: the
\* content fragments come first, then a sources event with an empty candidate
\* list, then the done event and nothing else, never an error event. Not
\* streamed: the response has an answer and an empty sources list.
C6_EmptyStoreStillAnswered ==
    /\ \A s \in 1..Len(streams) :
         (streams[s].backend = "mock" /\ streams[s].storeSize = 0) =>
             LET d == streams[s].delivered
                 n == Len(MockStreamWords(streams[s].request))
             IN /\ n >= 1 /\ Len(d) \in {n + 1, n + 2}
                /\ \A i \in 1..n : d[i].type = "token" /\ d[i].content # << >>
                /\ d[n + 1].type = "sources" /\ d[n + 1].content = << >>
                /\ Len(d) = n + 2 => d[n + 2].type = "done"
                /\ \A i \in 1..Len(d) : d[i].type # "error"
    /\ (lastResult.op = "query" /\ mockEntries = << >>) =>
             /\ lastResult.results.sources = << >>
             /\ lastResult.results.answer # << >>

\* a query and a completed streamed query, both answered from an empty store
C6_Witness ==
    /\ lastResult.op = "query" /\ mockEntries = << >>
    /\ \E s \in 1..Len(streams) :
         /\ streams[s].storeSize = 0
         /\ streams[s].delivered[Len(streams[s].delivered)].type = "done"

-----------------------------------------------------------------------------
(* Properties of streamed answers (SpecStream) *)

\* the event types of the two producers, by role
FragmentTypes == {"answer_chunk", "token"}
SourcesTypes == {"metadata", "sources"}
TerminalTypes == {"done", "error"}

\* the positions of the events of the given types in a stream's delivered events
EventsOf(d, types) == {i \in 1..Len(d) : d[i].type \in types}

\* the concatenation of the content of the fragments among the events d
RECURSIVE FragmentsText(_)
FragmentsText(d) ==
    IF d = << >> THEN << >>
    ELSE (IF Head(d).type \in FragmentTypes THEN Head(d).content ELSE << >>)
         \o FragmentsText(Tail(d))

\* the candidates a sources event carries, as (entry id, score) pairs
CandidatesOf(event) ==
    IF event.type = "metadata"
    THEN [i \in 1..Len(event.sources) |->
            [id |-> event.sources[i].id, score |-> event.sources[i].score]]
    ELSE [i \in 1..Len(event.content) |->
            [id |-> event.content[i].entry.id,
             score |-> event.content[i].relevance_score]]

\* the source list on display, as (entry id, score) pairs
DisplayedCandidates ==
    [i \in 1..Len(searchResults) |->
        [id |-> searchResults[i].entry.id, score |-> searchResults[i].relevance_score]]

\* the one streaming query of the SearchTab, when exactly one has been made
OneStreamingQuery == Len(streams) = 1 /\ streams[1].consumer /\ reqs = << >>

\* C1 as stated: the events of every stream are content fragments, then exactly
\* one sources event, then exactly one done event, and nothing follows the done
\* event (so the events delivered so far are a prefix of that sequence).
C1_FragmentsSourcesDone ==
    \A s \in 1..Len(streams) :
        LET d == streams[s].delivered
        IN \A i \in 1..Len(d) :
             \/ /\ d[i].type \in FragmentTypes
                /\ \A j \in 1..(i - 1) : d[j].type \in FragmentTypes
             \/ /\ d[i].type \in SourcesTypes
                /\ \A j \in 1..(i - 1) : d[j].type \in FragmentTypes
             \/ /\ d[i].type = "done"
                /\ i = Len(d) /\ i > 1 /\ d[i - 1].type \in SourcesTypes
                /\ \A j \in 1..(i - 2) : d[j].type \in FragmentTypes

\* C1 as amended: every event of a stream is a content fragment, a sources event
\* or a terminal event (done, or error when the answer fails); a stream delivers
\* at most one sources event and at most one terminal event, nothing follows the
\* terminal event, and a done event is preceded by exactly one sources event.
\* The mock's stream is its content fragments, then the sources event, then done.
C1_StreamShape ==
    \A s \in 1..Len(streams) :
        LET d == streams[s].delivered
            words == MockStreamWords(streams[s].request)
        IN /\ \A i \in 1..Len(d) :
                d[i].type \in FragmentTypes \cup SourcesTypes \cup TerminalTypes
           /\ Cardinality(EventsOf(d, SourcesTypes)) <= 1
           /\ EventsOf(d, TerminalTypes) \subseteq {Len(d)}
           /\ \A i \in EventsOf(d, {"done"}) :
                \E j \in 1..(i - 1) : d[j].type \in SourcesTypes
           /\ streams[s].backend = "mock" =>
                /\ Len(d) <= Len(words) + 2
                /\ \A i \in 1..Len(d) :
                     d[i].type = IF i <= Len(words) THEN "token"
                                 ELSE IF i = Len(words) + 1 THEN "sources" ELSE "done"

\* a mock stream has delivered all its events, the done event last
C1_Witness ==
    \E s \in 1..Len(streams) :
        /\ Len(streams[s].delivered) >= 3
        /\ streams[s].delivered[Len(streams[s].delivered)].type = "done"
        /\ streams[s].backend = "mock"

\* C2: for one streaming query, the answer the SearchTab has accumulated is the
\* concatenation, in arrival order, of the content fragments delivered so far.
C2_AnswerIsConcatenationOfFragments ==
    OneStreamingQuery => streamingAnswer = FragmentsText(streams[1].delivered)

\* C3: a streamed answer that ended with an error event or a transport error has
\* been reported with an error toast and is not taken as completed; an answer
\* that ended without an error report ended with a done event.
C3_FailureIsReported ==
    \A s \in 1..Len(streams) :
        LET st == streams[s]
            d == st.delivered
            failed == \/ st.outcome = "transport"
                      \/ (d # << >> /\ d[Len(d)].type = "error")
        IN st.consumer =>
             /\ failed =>
                  /\ st.outcome \in {"error", "transport"}
                  /\ \E i \in 1..Len(toasts) :
                       toasts[i].title = "Error" /\ toasts[i].variant = "destructive"
                  /\ ~loading \/ \E t \in 1..Len(streams) : streams[t].seq > st.seq
             /\ (st.closed /\ ~failed) =>
                  /\ st.outcome = "done"
                  /\ d # << >> /\ d[Len(d)].type = "done"

\* a streamed answer has ended with an error event, another with a transport error
C3_Witness ==
    /\ \E s \in 1..Len(streams) : streams[s].outcome = "error"
    /\ \E s \in 1..Len(streams) : streams[s].outcome = "transport"

\* C5: once the stream of a streaming query has delivered its sources event, the
\* source list on display is the candidates of that event, in order, with their
\* entry ids and scores; and every event delivered has a type the consumer knows.
C5_SourcesDisplayed ==
    OneStreamingQuery =>
        LET d == streams[1].delivered
        IN /\ \A i \in EventsOf(d, SourcesTypes) :
                DisplayedCandidates = CandidatesOf(d[i])
           /\ \A i \in 1..Len(d) :
                d[i].type \in {"answer_chunk", "metadata", "done", "error"}

-----------------------------------------------------------------------------
(* Properties of the SearchTab's requests (SpecSearch) *)

\* C9: when the search-only request of the latest handleSearch call has failed,
\* an error toast has been shown, loading is false and the result list on
\* display is empty.
C9_FailedSearchShowsNoResults ==
    \A r \in 1..Len(reqs) :
        (reqs[r].kind = "search" /\ reqs[r].state = "failed" /\ reqs[r].seq = Started) =>
            /\ \E i \in 1..Len(toasts) :
                 toasts[i].title = "Error" /\ toasts[i].variant = "destructive"
            /\ ~loading
            /\ searchResults = << >>

-----------------------------------------------------------------------------
(* Properties of the notification poller (SpecPoll) *)

\* C10: every notification the back end handed to the poller in a poll that has
\* been handled has been shown to the user as a toast.
C10_ReturnedNotificationsShown ==
    \A p \in 1..Len(polls) :
        polls[p].state = "handled" =>
            \A i \in 1..Len(polls[p].notifications) :
                polls[p].notifications[i].id \in shown

\* C11: getNotifications with since_id = s returns notifications in ascending id
\* order, each with an id greater than s, on the real and on the mock back end.
C11_NotificationsAscendingAboveSinceId ==
    lastResult.op = "getNotifications" =>
        LET ns == lastResult.results.notifications
        IN /\ \A i \in 1..(Len(ns) - 1) : ns[i].id < ns[i + 1].id
           /\ \A i \in 1..Len(ns) : ns[i].id > lastResult.params.since_id

\* C12: in every state of the search tab k is an integer from 1 to 10, and every
\* search, query and stream request of the tab was sent with k from 1 to 10.
C12_KBetween1And10 ==
    /\ k \in 1..10
    /\ \A r \in 1..Len(reqs) : reqs[r].request.k \in 1..10
    /\ \A s \in 1..Len(streams) : streams[s].request.k \in 1..10

\* the slider stands at its lowest step after a request went out with its highest
C12_Witness ==
    /\ k = 1
    /\ \E r \in 1..Len(reqs) : reqs[r].request.k = 10
    /\ \E s \in 1..Len(streams) : streams[s].consumer /\ streams[s].request.k # 5

-----------------------------------------------------------------------------
(* Properties of the mock entry store (SpecApi) *)

\* C17: after any sequence of createEntry and deleteEntry the total_entries that
\* getStats reports is the number of entries stored, and embedded_entries is
\* between 0 and total_entries.
C17_StatsCountEntries ==
    /\ mockStats.total_entries = Len(mockEntries)
    /\ mockStats.embedded_entries \in 0..mockStats.total_entries
    /\ lastResult.op = "getStats" =>
         /\ lastResult.results.total_entries = Len(mockEntries)
         /\ lastResult.results.embedded_entries \in 0..lastResult.results.total_entries

\* getStats is answered after an entry was created, an entry was deleted and an
\* absent id was deleted
C17_Witness ==
    /\ lastResult.op = "getStats"
    /\ created > 0
    /\ AbsentId \in deleted
    /\ deleted \ (InitialDeleted \cup {AbsentId}) # {}

\* C18: in every state of the entry store, also after all entries were deleted,
\* every stored entry has an integer id and the ids are pairwise distinct.
C18_IdsIntegerAndDistinct ==
    /\ \A i \in 1..Len(mockEntries) : mockEntries[i].id # NegInfinity
    /\ \A i, j \in 1..Len(mockEntries) :
         i # j => mockEntries[i].id # mockEntries[j].id

\* C19: deleteEntry(id) for an id that is not stored leaves the entries and the
\* counters as they are, and after deleteEntry(id) the id is not stored, so that
\* deleting it a second time changes nothing.
C19_DeleteAbsentIsNoOp ==
    [][lastResult'.op = "deleteEntry" =>
          /\ FindIndex(mockEntries, lastResult'.id) = 0 =>
                /\ mockEntries' = mockEntries
                /\ mockStats' = mockStats
          /\ FindIndex(mockEntries', lastResult'.id) = 0]_vars

-----------------------------------------------------------------------------
(* Properties of the UploadTab's tag list (SpecTags) *)

\* C20: after any sequence of tag additions and removals the tag list holds no
\* tag twice, no empty or whitespace-only tag, and every tag trimmed.
C20_TagsAreATrimmedSet ==
    /\ \A i, j \in 1..Len(tags) : i # j => tags[i] # tags[j]
    /\ \A i \in 1..Len(tags) : Trim(tags[i]) # << >> /\ Trim(tags[i]) = tags[i]

\* the list holds a tag that was typed with blanks around it, and the same tag
\* is in the input again
C20_Witness ==
    /\ Len(tags) >= 2
    /\ TagsInclude(tags, <<"a">>)
    /\ tagInput = <<" ", "a", " ">>

-----------------------------------------------------------------------------
(* The embedding pipeline's claims *)

\* C13: every entry whose embedding_status is "embedded" has exactly one
\* Vector Record in the vector index, and every Vector Record belongs to an
\* entry that exists in the entry store (none is left after a delete).
C13_EmbeddedHasOneVectorAndNoDangling ==
    \A e \in EntryIds :
        /\ estatus[e] = "embedded" => vectors[e] = 1
        /\ vectors[e] > 0 => EntryExists(e)

\* an embedded entry was pushed again and went through a batch, and another
\* entry was deleted after it had been embedded
C13_Witness ==
    /\ \E e \in EntryIds : estatus[e] = "embedded" /\ vectors[e] = 1
    /\ \E d \in EntryIds : estatus[d] = "deleted"
    /\ \E t \in 1..Len(tasks) : tasks[t].state = "done"
    /\ Len(events) >= 2

\* C14: an entry's embedding_status changes only from pending to embedded or
\* from pending to failed; an embedded entry never becomes pending or failed
\* again. A re-queue, which sets a failed entry to pending, starts the entry's
\* next lifecycle; creation and deletion begin and end the entry.
C14_StatusMovesOnlyForward ==
    [][\A e \in EntryIds :
          estatus'[e] # estatus[e] =>
              \/ estatus[e] = "pending" /\ estatus'[e] \in {"embedded", "failed"}
              \/ estatus[e] = "failed" /\ estatus'[e] = "pending"
                 /\ requeued' = requeued + 1
              \/ estatus[e] = "absent" /\ estatus'[e] = "pending"
              \/ EntryExists(e) /\ estatus'[e] = "deleted"]_vars

\* a re-queued entry was embedded in its second lifecycle, after a batch with
\* a retry
C14_Witness ==
    /\ requeued = 1
    /\ \E e \in EntryIds : estatus[e] = "embedded"
    /\ \E t \in 1..Len(tasks) : tasks[t].state = "exhausted"
    /\ \E t \in 1..Len(tasks) : tasks[t].state = "done" /\ tasks[t].attempts = 2

\* the failure events published for task t
FailureEvents(log, t) ==
    Cardinality({i \in 1..Len(log) : log[i] = [kind |-> "failure", task |-> t]})

\* C15: when embed_batch fails for every item on every attempt, the task stops
\* after exactly MaxAttempts attempts: at that step every entry of the batch
\* is marked failed, one failure event is published, and no attempt follows.
C15_ExhaustedAfterMaxAttempts ==
    [][\A t \in 1..Len(tasks) :
          /\ (tasks[t].state = "running" /\ ~tasks'[t].everOk
              /\ tasks'[t].attempts >= MaxAttempts
              /\ \E e \in tasks[t].batch : EntryExists(e)) =>
                 /\ tasks'[t].state = "exhausted"
                 /\ tasks'[t].attempts = MaxAttempts
                 /\ \A e \in tasks[t].batch : EntryExists(e) => estatus'[e] = "failed"
                 /\ FailureEvents(events', t) = 1
          /\ (tasks[t].state = "running" /\ tasks[t].attempts < MaxAttempts - 1
              /\ tasks'[t].remaining # {}) => tasks'[t].state = "running"
          /\ tasks[t].state = "exhausted" =>
                 /\ tasks'[t] = tasks[t]
                 /\ FailureEvents(events', t) = 1]_vars

\* a batch of BatchSize entries failed on every attempt and was given up
C15_Witness ==
    \E t \in 1..Len(tasks) :
        /\ tasks[t].state = "exhausted" /\ ~tasks[t].everOk
        /\ Cardinality(tasks[t].batch) = BatchSize
        /\ tasks[t].attempts = MaxAttempts
        /\ \A e \in tasks[t].batch : estatus[e] = "failed"
        /\ FailureEvents(events, t) = 1

-----------------------------------------------------------------------------
(* Further properties of the SearchTab (SpecStream, SpecSearch, SpecTab) *)

\* C21: the step in which the consumer handles a done event, an error event or
\* a transport error of a stream closes that stream and sets loading to false;
\* from then on the stream stays closed and no event dispatched on it changes
\* the accumulated answer or the sources on display.
C21_EndedStreamIsClosedAndSilent ==
    [][\A s \in 1..Len(streams) :
          /\ (streams[s].outcome = "open" /\ streams'[s].outcome # "open") =>
                 streams'[s].closed /\ loading' = FALSE
          /\ streams[s].outcome # "open" =>
                 /\ streams'[s].closed /\ streams'[s].outcome = streams[s].outcome
                 /\ streams'[s].delivered # streams[s].delivered =>
                        /\ streamingAnswer' = streamingAnswer
                        /\ searchResults' = searchResults]_vars

\* the consumer has handled the done event of one stream after a fragment and
\* the sources, and a transport error of another
C21_Witness ==
    /\ \E s \in 1..Len(streams) :
         /\ streams[s].outcome = "done" /\ streams[s].closed
         /\ Len(streams[s].delivered) >= 3
    /\ \E s \in 1..Len(streams) : streams[s].outcome = "transport" /\ streams[s].closed
    /\ ~loading
    /\ streamingAnswer # << >>

-----------------------------------------------------------------------------
(* Further properties of the notification poller (SpecPoll) *)

\* C22: the poller's cursor lastNotificationId never decreases, whatever the
\* order in which overlapping polls are answered and handled, and a step that
\* changes it sets it to the id of a notification shown as a toast.
C22_CursorMonotoneAndShown ==
    [][/\ lastNotificationId' >= lastNotificationId
       /\ lastNotificationId' # lastNotificationId =>
              /\ lastNotificationId' \in shown'
              /\ \E p \in 1..Len(polls) :
                   /\ polls[p].state = "answered" /\ polls'[p].state = "handled"
                   /\ \E i \in 1..Len(polls[p].notifications) :
                        /\ polls[p].notifications[i].id = lastNotificationId'
                        /\ ShowsToast(polls[p].notifications[i])]_vars

\* two overlapping polls were handled, the one with the older response after
\* the cursor had reached the newest notification
C22_Witness ==
    /\ lastNotificationId = 2
    /\ Len(polls) = 2
    /\ polls[1].params.since_id = 0 /\ polls[2].params.since_id = 0
    /\ polls[1].state = "handled" /\ polls[2].state = "handled"
    /\ \E p \in 1..2 : Len(polls[p].notifications) = 1 /\ polls[p].notifications[1].id = 1
    /\ \E p \in 1..2 : Len(polls[p].notifications) = 2

\* C25: every notification for which the poller has requested mark-read has
\* been shown as a toast.
C25_MarkReadOnlyAfterShown ==
    \A id \in markReads : id \in shown

-----------------------------------------------------------------------------
(* Further properties of the SearchTab's requests (SpecSearch, SpecStream) *)

\* the queries started by handleSearch that have not ended: requests not yet
\* answered and streams the consumer has not seen end
InFlight ==
    Cardinality({r \in 1..Len(reqs) : reqs[r].state = "pending"})
    + Cardinality({s \in 1..Len(streams) :
                     streams[s].consumer /\ streams[s].outcome = "open"})

\* C23: at most one query started by handleSearch is in flight at a time, and
\* the results on display after a search-only request was answered are those
\* of the most recently submitted query.
C23_AtMostOneInFlight ==
    /\ InFlight <= 1
    /\ \A r \in 1..Len(reqs) :
          (reqs[r].kind = "search" /\ reqs[r].state = "pending") => searchResults = << >>

\* C24: whenever loading is true it eventually becomes false again, given that
\* the stream of every query runs to its terminal event or transport error.
C24_LoadingEventuallyFalse ==
    loading ~> ~loading

-----------------------------------------------------------------------------
(* Properties of the UploadTab's uploads (SpecUpload) *)

\* C26: over any sequence of upload attempts, each selected file has led to at
\* most one created entry.
C26_EachFileCreatedAtMostOnce ==
    \A f \in FileIds : entriesOf[f] <= 1

-----------------------------------------------------------------------------
(* Properties of the Sidebar (SpecSide) *)

\* C27: the status shown is never older than a response already received: no
\* status request answered so far was issued after the one whose response is
\* shown.
C27_StatusIsNewestResponse ==
    \A r \in 1..Len(statusReqs) : statusReqs[r].state = "ok" => status.seq >= r

-----------------------------------------------------------------------------
(* Properties of the DataTab (SpecData) *)

\* C28: once handleDelete has succeeded for an id, the list does not contain
\* that id; and the step in which it succeeds keeps every other entry that was
\* listed.
C28_DeletedEntryNotListed ==
    \A x \in 1..Len(deletes) :
        deletes[x].state = "ok" =>
            \A i \in 1..Len(dataEntries) : dataEntries[i] # deletes[x].id

-----------------------------------------------------------------------------
(* Further properties of handleSearch (SpecSearch) *)

\* a query that is empty or consists of white space only
IsBlank(q) == \A i \in 1..Len(q) : q[i] = " "

\* the toast handleSearch raises for a blank query is the newest toast
BlankQueryToastAdded(before, after) ==
    /\ Len(after) = Len(before) + 1
    /\ SubSeq(after, 1, Len(before)) = before
    /\ after[Len(after)].description = <<"Please enter a search query">>
    /\ after[Len(after)].variant = "destructive"

\* C29: while the query is empty or white space only, no step starts a request
\* or a stream or changes loading from false to true, and a step of
\* handleSearch only adds the error toast: loading, the previous answer and
\* the previous results stay as they are.
C29_BlankQueryOnlyToasts ==
    [][/\ IsBlank(query) =>
            /\ Started' = Started
            /\ loading' => loading
       /\ BlankQueryToastAdded(toasts, toasts') =>
            /\ IsBlank(query)
            /\ UNCHANGED <<loading, ragResponse, searchResults, streamingAnswer,
                           reqs, streams, query>>]_vars

\* handleSearch was called with a white-space query while the results of an
\* earlier search were on display
C29_Witness ==
    /\ query = <<" ">>
    /\ searchResults # << >>
    /\ \E i \in 1..Len(toasts) : toasts[i].description = <<"Please enter a search query">>
    /\ \E r \in 1..Len(reqs) : reqs[r].state = "ok"

-----------------------------------------------------------------------------
(* Properties of the toast store (SpecPoll) *)

\* C30: no two toasts in the store share an id, so that removeToast(id), which
\* drops every toast with that id, removes exactly the toast being closed.
C30_ToastIdsDistinct ==
    \A i, j \in 1..Len(toasts) : i # j => toasts[i].id # toasts[j].id

====
